---- MODULE Spec2Model ----
(***************************************************************************)
(* Model of the commands of Adafruit_Legolas:                              *)
(*   hexmerge  (src/Adafruit_Legolas/commands/hexmerge.py)                 *)
(*   hexpad    (src/Adafruit_Legolas/commands/hexpad.py)                   *)
(*   elfquery  (src/Adafruit_Legolas/commands/elfquery.py)                 *)
(* One behaviour is one command invocation: Init fixes the command and     *)
(* its parsed arguments, the actions are the steps of the command body.    *)
(*                                                                         *)
(* An image (intelhex.IntelHex) is a record                                *)
(*   [buf |-> partial function address -> byte, start_addr |-> token]      *)
(* where start_addr is "None" when the file carries no start address       *)
(* record.  IntelHex.merge, IntelHex.minaddr/maxaddr and item assignment   *)
(* are library calls; they are modelled at their call sites by what the    *)
(* IntelHex library does.                                                  *)
(***************************************************************************)
EXTENDS Integers, Sequences, FiniteSets

VARIABLES cmd,        \* "hexmerge" | "hexpad": the command invoked
          pc,         \* position in the command body
          err,        \* "none", or the error that ended the command
          written,    \* TRUE once write_hex_file has run
          output,     \* the image handed to write_hex_file
          inputs,     \* hexmerge: the images of the input files, in order
          overlap,    \* hexmerge: --overlap, "error" | "ignore"
          merged,     \* hexmerge: the accumulator
          idx,        \* hexmerge: position of the for loop over inputs
          input_hex,  \* hexpad: the input image
          args,       \* hexpad: the options as parsed by click
          start,      \* hexpad: local start (None or an integer)
          end,        \* hexpad: local end (None or an integer)
          padded,     \* hexpad: the image being built
          i,          \* hexpad: the loop variable of the fill loop
          elffile,    \* elfquery: the sections of the parsed ELF file, in file order
          sections,   \* elfquery: the rows of table sections, in insertion order
          symbols,    \* elfquery: the rows of table symbols, in insertion order
          nsec,       \* elfquery: position of the loop over the sections
          nsym,       \* elfquery: position of the loop over a table's symbols
          query,      \* elfquery: the QUERY argument, "None" when not given
          lastcmd,    \* elfquery: cmd.Cmd.lastcmd, the last non-empty line
          lines,      \* elfquery: number of lines read at the prompt
          echoed      \* elfquery: what the last step wrote to the output

vars == <<cmd, pc, err, written, output, inputs, overlap, merged, idx,
          input_hex, args, start, end, padded, i,
          elffile, sections, symbols, nsec, nsym, query, lastcmd, lines, echoed>>

mergeVars == <<inputs, overlap, merged, idx>>
padVars == <<input_hex, args, start, end, padded, i>>
elfVars == <<elffile, sections, symbols, nsec, nsym, query, lastcmd, lines, echoed>>

---------------------------------------------------------------------------
\* Bounds of the model.

\* hexmerge takes at most MaxInputs input files
MaxInputs == 3
\* hexmerge input images use addresses 0..MergeMaxAddr
MergeMaxAddr == 2
\* hexpad input images use addresses 0..PadMaxAddr
PadMaxAddr == 2
\* hexpad --start/--end values range over -MaxArg..MaxArg
MaxArg == 3

\* byte values stored in input images
Bytes == {1, 2}
\* values given to --pad (255 is the default 0xFF; 257 and -1 exceed a byte)
Pads == {255, 257, -1}
\* start address records carried by input images
StartAddrs == {"None", "A", "B"}

---------------------------------------------------------------------------
\* Optional integers: Python's None is the empty set, an integer n is {n}.

None == {}
Some(n) == {n}
Val(s) == CHOOSE n \in s : TRUE

MinOf(S) == CHOOSE m \in S : \A x \in S : m <= x
MaxOf(S) == CHOOSE m \in S : \A x \in S : m >= x

---------------------------------------------------------------------------
\* Images.

EmptyBuf == [a \in {} |-> 0]
EmptyImage == [buf |-> EmptyBuf, start_addr |-> "None"]

Bufs(maxaddr) == UNION {[S -> Bytes] : S \in SUBSET (0..maxaddr)}
Images(maxaddr) == [buf : Bufs(maxaddr), start_addr : StartAddrs]

Used(img) == DOMAIN img.buf

\* IntelHex.minaddr() / maxaddr(): None for an image without data
minaddr(img) == IF Used(img) = {} THEN None ELSE Some(MinOf(Used(img)))
maxaddr(img) == IF Used(img) = {} THEN None ELSE Some(MaxOf(Used(img)))

---------------------------------------------------------------------------
\* IntelHex.merge(other, overlap) as called by the commands.
\* Data: every address of other is copied into self, except that an address
\* self already holds raises AddressOverlapError under "error" and is
\* skipped (self keeps its byte) under "ignore"; "replace" overwrites.
\* Start address: taken from other when self has none; two different start
\* addresses raise under "error", are kept under "ignore", replaced under
\* "replace".

\* mutant: an overlapping address raises only when the two bytes differ
MergeRaisesIfDiffer(self, other, ovl) ==
    /\ ovl = "error"
    /\ \/ \E a \in Used(self) \cap Used(other) : self.buf[a] # other.buf[a]
       \/ /\ self.start_addr # "None"
          /\ other.start_addr # "None"
          /\ self.start_addr # other.start_addr

\* mutant: merge never raises AddressOverlapError
MergeNeverRaises(self, other, ovl) == FALSE

\* mutant: different start addresses do not raise
MergeRaisesIgnoringStart(self, other, ovl) ==
    /\ ovl = "error"
    /\ Used(self) \cap Used(other) # {}

MergeRaises(self, other, ovl) ==
    /\ ovl = "error"
    /\ \/ Used(self) \cap Used(other) # {}
       \/ /\ self.start_addr # "None"
          /\ other.start_addr # "None"
          /\ self.start_addr # other.start_addr

MergedStart(self, other, ovl) ==
    IF self.start_addr = other.start_addr THEN self.start_addr
    ELSE IF self.start_addr = "None" THEN other.start_addr
    ELSE IF other.start_addr = "None" THEN self.start_addr
    ELSE IF ovl = "replace" THEN other.start_addr
    ELSE self.start_addr

\* mutant: under "ignore" the data loop stops at an overlapping address
\* (break for continue), so other's new addresses are not copied
MergeResultBreaks(self, other, ovl) ==
    [buf |-> IF ovl = "ignore" /\ Used(self) \cap Used(other) # {}
             THEN self.buf
             ELSE [a \in Used(self) \cup Used(other) |->
                      IF a \in Used(other) THEN other.buf[a] ELSE self.buf[a]],
     start_addr |-> MergedStart(self, other, ovl)]

\* the image self becomes when merge returns normally
MergeResult(self, other, ovl) ==
    [buf |-> [a \in Used(self) \cup Used(other) |->
                 IF a \in Used(other) /\ (a \notin Used(self) \/ ovl # "ignore")
                 THEN other.buf[a]
                 ELSE self.buf[a]],
     start_addr |-> MergedStart(self, other, ovl)]

\* the images self may be left as when merge raises: the data loop stops at
\* the first overlapping address it meets, in dictionary order, having copied
\* some of other's new addresses; a start address conflict raises after the
\* data loop has completed
MergeAborted(self, other, ovl) ==
    IF Used(self) \cap Used(other) # {}
    THEN {[buf |-> [a \in Used(self) \cup S |->
                       IF a \in S THEN other.buf[a] ELSE self.buf[a]],
           start_addr |-> self.start_addr] :
            S \in SUBSET (Used(other) \ Used(self))}
    ELSE {[buf |-> MergeResult(self, other, ovl).buf,
           start_addr |-> self.start_addr]}

---------------------------------------------------------------------------
\* hexmerge

RECURSIVE MergeAll(_, _, _)
\* the try block of hexmerge as a function of the input list: the fold of
\* merge over the inputs, stopped by the first AddressOverlapError
MergeAll(acc, seq, ovl) ==
    IF seq = <<>> THEN [raised |-> FALSE, img |-> acc]
    ELSE IF MergeRaises(acc, Head(seq), ovl) THEN [raised |-> TRUE, img |-> acc]
    ELSE MergeAll(MergeResult(acc, Head(seq), ovl), Tail(seq), ovl)

InputLists == UNION {[1..n -> Images(MergeMaxAddr)] : n \in 0..MaxInputs}

InitMerge ==
    /\ err = "none"
    /\ written = FALSE
    /\ output = EmptyImage
    /\ cmd = "hexmerge"
    /\ pc = "merge"
    /\ inputs \in InputLists
    /\ overlap \in {"error", "ignore"}
    /\ merged = EmptyImage
    /\ idx = 1
    /\ input_hex = EmptyImage
    /\ args = [start |-> None, end |-> None, pad |-> 255, relative |-> FALSE]
    /\ start = None
    /\ end = None
    /\ padded = EmptyImage
    /\ i = 0
    /\ elffile = <<>>
    /\ sections = <<>>
    /\ symbols = <<>>
    /\ nsec = 0
    /\ nsym = 0
    /\ query = "None"
    /\ lastcmd = ""
    /\ lines = 0
    /\ echoed = "none"

\* one iteration of `for filename in inputs`: merged.merge(IntelHex(filename), overlap)
MergeInput ==
    /\ cmd = "hexmerge"
    /\ pc = "merge"
    /\ idx <= Len(inputs)
    /\ IF MergeRaises(merged, inputs[idx], overlap)
       THEN /\ merged' \in MergeAborted(merged, inputs[idx], overlap)
            /\ err' = "overlap"
            /\ pc' = "failed"
            /\ idx' = idx
       ELSE /\ merged' = MergeResult(merged, inputs[idx], overlap)
            /\ err' = err
            /\ pc' = pc
            /\ idx' = idx + 1
    /\ UNCHANGED <<cmd, written, output, inputs, overlap>>
    /\ UNCHANGED padVars
    /\ UNCHANGED elfVars

\* after the loop: merged.write_hex_file(output, True)
MergeWrite ==
    /\ cmd = "hexmerge"
    /\ pc = "merge"
    /\ idx > Len(inputs)
    /\ output' = merged
    /\ written' = TRUE
    /\ pc' = "done"
    /\ UNCHANGED <<cmd, err>>
    /\ UNCHANGED mergeVars
    /\ UNCHANGED padVars
    /\ UNCHANGED elfVars

---------------------------------------------------------------------------
\* hexpad

\* one item assignment image[addr] = byte
SetItem(img, addr, byte) ==
    [img EXCEPT !.buf = [a \in DOMAIN img.buf \cup {addr} |->
                            IF a = addr THEN byte ELSE img.buf[a]]]

\* pad & 0xFF
PadByte(pad) == pad % 256

\* mutant: the start address defaults to 0 in absolute mode
DefaultStartZero(s, relative, img) ==
    IF s = None THEN Some(0) ELSE s

\* start after `if start is None:`
DefaultStart(s, relative, img) ==
    IF s = None
    THEN IF relative THEN Some(0) ELSE minaddr(img)
    ELSE s

\* end after `if end is None:`
DefaultEnd(e, relative, img) ==
    IF e = None
    THEN IF relative THEN Some(0) ELSE maxaddr(img)
    ELSE e

\* mutant: the bounds are validated in relative mode too
ChecksBoundsAlways(relative) == TRUE

\* `if not relative:`
ChecksBounds(relative) == ~relative

\* mutant: the ordering test comes before the negativity test
ValidateOrderFirst(s, e) ==
    IF s = None \/ e = None THEN {"negative", "TypeError"}
    ELSE IF Val(e) < Val(s) THEN {"order"}
    ELSE IF Val(s) < 0 \/ Val(e) < 0 THEN {"negative"}
    ELSE {"none"}

\* the outcomes of the two tests of absolute mode.  A bound that is still
\* None (the input image holds no data) is compared with 0: Python 2 orders
\* None below every integer, Python 3 raises TypeError.
Validate(s, e) ==
    IF s # None /\ Val(s) < 0 THEN {"negative"}
    ELSE IF s = None \/ e = None THEN {"negative", "TypeError"}
    ELSE IF Val(e) < 0 THEN {"negative"}
    ELSE IF Val(e) < Val(s) THEN {"order"}
    ELSE {"none"}

\* input_hex.minaddr() + start
RelativeStart(img, s) == Some(Val(minaddr(img)) + Val(s))

\* mutant: the end offset is applied to the first used address
RelativeEndFromMin(img, e) == Some(Val(minaddr(img)) + Val(e))

\* input_hex.maxaddr() + end
RelativeEnd(img, e) == Some(Val(maxaddr(img)) + Val(e))

\* mutant: the input is merged with overlap='ignore', the pad bytes win
OverlayIgnore(pad_img, img) == MergeResult(pad_img, img, "ignore")

\* padded.merge(input_hex, overlap='replace')
Overlay(pad_img, img) == MergeResult(pad_img, img, "replace")

ArgValues == {None} \cup {Some(n) : n \in (-MaxArg)..MaxArg}

InitPad ==
    /\ err = "none"
    /\ written = FALSE
    /\ output = EmptyImage
    /\ cmd = "hexpad"
    /\ pc = "defaults"
    /\ input_hex \in Images(PadMaxAddr)
    /\ args \in [start : ArgValues, end : ArgValues, pad : Pads, relative : BOOLEAN]
    /\ start = args.start
    /\ end = args.end
    /\ padded = EmptyImage
    /\ i = 0
    /\ inputs = <<>>
    /\ overlap = "error"
    /\ merged = EmptyImage
    /\ idx = 1
    /\ elffile = <<>>
    /\ sections = <<>>
    /\ symbols = <<>>
    /\ nsec = 0
    /\ nsym = 0
    /\ query = "None"
    /\ lastcmd = ""
    /\ lines = 0
    /\ echoed = "none"

\* "Set start and end value if not specified."
PadDefaults ==
    /\ cmd = "hexpad"
    /\ pc = "defaults"
    /\ start' = DefaultStart(start, args.relative, input_hex)
    /\ end' = DefaultEnd(end, args.relative, input_hex)
    /\ pc' = "validate"
    /\ UNCHANGED <<cmd, err, written, output, input_hex, args, padded, i>>
    /\ UNCHANGED mergeVars
    /\ UNCHANGED elfVars

\* "Do basic input validation on the start and end values in normal/absolute mode."
PadValidate ==
    /\ cmd = "hexpad"
    /\ pc = "validate"
    /\ IF ChecksBounds(args.relative)
       THEN \E outcome \in Validate(start, end) :
               /\ err' = outcome
               /\ pc' = IF outcome = "none" THEN "resolve" ELSE "failed"
       ELSE /\ err' = err
            /\ pc' = "resolve"
    /\ UNCHANGED <<cmd, written, output, input_hex, args, start, end, padded, i>>
    /\ UNCHANGED mergeVars
    /\ UNCHANGED elfVars

\* "Compute the absolute start and end address in relative mode.", then
\* enter the fill loop: range(start, end+1)
PadRelative ==
    /\ cmd = "hexpad"
    /\ pc = "resolve"
    /\ IF args.relative
       THEN IF minaddr(input_hex) = None
            THEN \* None + int
                 /\ err' = "TypeError"
                 /\ pc' = "failed"
                 /\ UNCHANGED <<start, end, i>>
            ELSE /\ start' = RelativeStart(input_hex, start)
                 /\ end' = RelativeEnd(input_hex, end)
                 /\ i' = Val(start')
                 /\ pc' = "fill"
                 /\ err' = err
       ELSE /\ i' = Val(start)
            /\ pc' = "fill"
            /\ UNCHANGED <<start, end, err>>
    /\ UNCHANGED <<cmd, written, output, input_hex, args, padded>>
    /\ UNCHANGED mergeVars
    /\ UNCHANGED elfVars

\* one iteration of the fill loop: padded[i] = pad & 0xFF.  IntelHex item
\* assignment raises TypeError for a negative address.
PadFill ==
    /\ cmd = "hexpad"
    /\ pc = "fill"
    /\ i <= Val(end)
    /\ IF i < 0
       THEN /\ err' = "TypeError"
            /\ pc' = "failed"
            /\ UNCHANGED <<padded, i>>
       ELSE /\ padded' = SetItem(padded, i, PadByte(args.pad))
            /\ i' = i + 1
            /\ UNCHANGED <<err, pc>>
    /\ UNCHANGED <<cmd, written, output, input_hex, args, start, end>>
    /\ UNCHANGED mergeVars
    /\ UNCHANGED elfVars

\* after the loop: "merge in the input file on top of the pad bytes"
PadOverlay ==
    /\ cmd = "hexpad"
    /\ pc = "fill"
    /\ i > Val(end)
    /\ padded' = Overlay(padded, input_hex)
    /\ pc' = "write"
    /\ UNCHANGED <<cmd, err, written, output, input_hex, args, start, end, i>>
    /\ UNCHANGED mergeVars
    /\ UNCHANGED elfVars

\* padded.write_hex_file(output, True)
PadWrite ==
    /\ cmd = "hexpad"
    /\ pc = "write"
    /\ output' = padded
    /\ written' = TRUE
    /\ pc' = "done"
    /\ UNCHANGED <<cmd, err>>
    /\ UNCHANGED padVars
    /\ UNCHANGED mergeVars
    /\ UNCHANGED elfVars

---------------------------------------------------------------------------
\* elfquery: the parsed ELF file.
\* Text is a sequence of one-character strings.  A section is a record
\*   [name, sh_type, sh_entsize, symbols]
\* where symbols are the entries its data holds, in file order, and a symbol
\*   [name, st_shndx, version]
\* where version is the GNU version information the file attaches to a
\* dynamic symbol ("none" outside .dynsym).  The other header and symbol
\* fields are copied to the row unchanged and are left out.

\* at most MaxSections sections follow the null section
MaxSections == 2
\* a symbol table holds at most MaxSyms entries
MaxSyms == 2

Digits == {"0", "1", "2", "3", "4", "5", "6", "7", "8", "9"}
DigitOf(d) == CASE d = 0 -> "0" [] d = 1 -> "1" [] d = 2 -> "2" [] d = 3 -> "3"
                [] d = 4 -> "4" [] d = 5 -> "5" [] d = 6 -> "6" [] d = 7 -> "7"
                [] d = 8 -> "8" [] d = 9 -> "9"
ValueOf(c) == CHOOSE d \in 0..9 : DigitOf(d) = c

RECURSIVE ToDecimal(_)
\* '%s' % x for a non-negative integer
ToDecimal(x) ==
    IF x < 10 THEN <<DigitOf(x)>>
    ELSE Append(ToDecimal(x \div 10), DigitOf(x % 10))

RECURSIVE FromDecimal(_)
\* the integer a text of digits converts to under NUMERIC affinity
FromDecimal(t) ==
    IF t = <<>> THEN 0
    ELSE 10 * FromDecimal(SubSeq(t, 1, Len(t) - 1)) + ValueOf(t[Len(t)])

RECURSIVE LStrip(_)
LStrip(t) == IF t # <<>> /\ Head(t) = " " THEN LStrip(Tail(t)) ELSE t
RECURSIVE RStrip(_)
RStrip(t) ==
    IF t # <<>> /\ t[Len(t)] = " " THEN RStrip(SubSeq(t, 1, Len(t) - 1)) ELSE t
\* str.strip()
Strip(t) == LStrip(RStrip(t))

RECURSIVE Pad3(_)
\* '%3s' % t: right-justified in a field of three characters
Pad3(t) == IF Len(t) >= 3 THEN t ELSE Pad3(<<" ">> \o t)

\* str.isdigit(t)
IsDigit(t) == t # <<>> /\ \A k \in 1..Len(t) : t[k] \in Digits

\* elftools describe_symbol_shndx: SHN_UNDEF (0), SHN_ABS (0xfff1) and
\* SHN_COMMON (0xfff2) have names, any other value is printed with '%3s'
describe_symbol_shndx(x) ==
    IF x = 0 THEN <<"U", "N", "D">>
    ELSE IF x = 65521 THEN <<"A", "B", "S">>
    ELSE IF x = 65522 THEN <<"C", "O", "M">>
    ELSE Pad3(ToDecimal(x))

\* elftools describe_sh_type
describe_sh_type(t) ==
    CASE t = "SHT_NULL" -> <<"N", "U", "L", "L">>
      [] t = "SHT_PROGBITS" -> <<"P", "R", "O", "G", "B", "I", "T", "S">>
      [] t = "SHT_SYMTAB" -> <<"S", "Y", "M", "T", "A", "B">>
      [] t = "SHT_DYNSYM" -> <<"D", "Y", "N", "S", "Y", "M">>

\* isinstance(section, SymbolTableSection)
IsSymbolTable(section) == section.sh_type \in {"SHT_SYMTAB", "SHT_DYNSYM"}

\* mutant: the entry size is not tested
LoadsSymbolsAnyEntsize(section) == IsSymbolTable(section)

\* the two tests at the head of the symbol loop: the section's symbols are
\* loaded when neither `continue` is taken
LoadsSymbols(section) == IsSymbolTable(section) /\ section.sh_entsize # 0

SecNames == {<<".", "a">>, <<".", "b", " ">>}
SymNames == {<<"f">>, <<" ", "g">>}
\* st_shndx values: SHN_UNDEF, SHN_ABS and section indexes
ShndxValues == {0, 65521} \cup (1..MaxSections)
Versions == {"none", "def", "def_hidden", "need"}

StaticSymbols == [name : SymNames, st_shndx : ShndxValues, version : {"none"}]
DynamicSymbols == [name : {<<"f">>}, st_shndx : {0, 1}, version : Versions]

SymbolLists(S) == UNION {[1..n -> S] : n \in 0..MaxSyms}

NullSection ==
    [name |-> <<>>, sh_type |-> "SHT_NULL", sh_entsize |-> 0, symbols |-> <<>>]

Sections ==
    [name : SecNames, sh_type : {"SHT_PROGBITS"}, sh_entsize : {0},
     symbols : {<<>>}]
    \cup [name : SecNames, sh_type : {"SHT_SYMTAB"}, sh_entsize : {0, 16},
          symbols : SymbolLists(StaticSymbols)]
    \cup [name : SecNames, sh_type : {"SHT_DYNSYM"}, sh_entsize : {16},
          symbols : SymbolLists(DynamicSymbols)]

\* the null section followed by at most n sections
ElfFiles(n) == {<<NullSection>> \o rest : rest \in UNION {[1..m -> Sections] : m \in 0..n}}

---------------------------------------------------------------------------
\* elfquery: ELFQuery._load_db

\* the row of table sections for the section at position n (the columns
\* Number, Name, Type, EntrySize of SECTION_COLS)
SectionRow(n, section) ==
    [Number |-> n,
     Name |-> Strip(section.name),
     Type |-> Strip(describe_sh_type(section.sh_type)),
     EntrySize |-> section.sh_entsize]

\* mutant: the index selects the row by its position in the table
get_section_by_position(rows, index) ==
    IF FromDecimal(index) \in 1..Len(rows)
    THEN Some(rows[FromDecimal(index)]) ELSE None

\* ELFQuery._get_section(index): SELECT * FROM sections WHERE Number = ?
\* with a text parameter, compared as a number with the integer column;
\* fetchone() is the first matching row, None when there is none
get_section(rows, index) ==
    LET hits == {k \in 1..Len(rows) : rows[k].Number = FromDecimal(index)}
    IN  IF hits = {} THEN None ELSE Some(rows[MinOf(hits)])

\* related_section: None, or the Name of the sections row the index finds
RelatedSection(rows, shndx) ==
    IF IsDigit(shndx)
    THEN LET sec == get_section(rows, shndx)
         IN  IF sec # None THEN Some(Val(sec).Name) ELSE None
    ELSE None

\* mutant: the numbering starts at 0
NextNumberFromZero(rows) == Len(rows)

\* the integer primary key autoincrement gives a row inserted with NULL
NextNumber(rows) ==
    IF rows = <<>> THEN 1
    ELSE MaxOf({rows[k].Number : k \in 1..Len(rows)}) + 1

\* mutant: the name of a versioned symbol carries "@" and the version kind
SymbolRowVersioned(symbol, secrows, symrows) ==
    LET shndx == Strip(describe_symbol_shndx(symbol.st_shndx))
    IN  [Number |-> NextNumber(symrows),
         SectionIndex |-> shndx,
         Name |-> IF symbol.version = "none" THEN Strip(symbol.name)
                  ELSE Strip(symbol.name) \o <<"@">>,
         Section |-> RelatedSection(secrows, shndx)]

\* the row of table symbols for a symbol (the columns Number, SectionIndex,
\* Name, Section of SYMBOL_COLS)
SymbolRow(symbol, secrows, symrows) ==
    LET shndx == Strip(describe_symbol_shndx(symbol.st_shndx))
    IN  [Number |-> NextNumber(symrows),
         SectionIndex |-> shndx,
         Name |-> Strip(symbol.name),
         Section |-> RelatedSection(secrows, shndx)]

InitLoadWith(files, queries) ==
    /\ err = "none"
    /\ written = FALSE
    /\ output = EmptyImage
    /\ cmd = "elfquery"
    /\ pc = "load_sections"
    /\ elffile \in files
    /\ query \in queries
    /\ sections = <<>>
    /\ symbols = <<>>
    /\ nsec = 0
    /\ nsym = 0
    /\ lastcmd = ""
    /\ lines = 0
    /\ echoed = "none"
    /\ inputs = <<>>
    /\ overlap = "error"
    /\ merged = EmptyImage
    /\ idx = 1
    /\ input_hex = EmptyImage
    /\ args = [start |-> None, end |-> None, pad |-> 255, relative |-> FALSE]
    /\ start = None
    /\ end = None
    /\ padded = EmptyImage
    /\ i = 0

hexVars == <<written, output, inputs, overlap, merged, idx,
             input_hex, args, start, end, padded, i>>

\* one iteration of the loop over the sections: INSERT INTO sections
LoadSection ==
    /\ cmd = "elfquery"
    /\ pc = "load_sections"
    /\ nsec < Len(elffile)
    /\ sections' = Append(sections, SectionRow(nsec, elffile[nsec + 1]))
    /\ IF nsec + 1 < Len(elffile)
       THEN nsec' = nsec + 1 /\ pc' = pc
       ELSE nsec' = 0 /\ pc' = "load_symbols"
    /\ UNCHANGED <<cmd, err, elffile, symbols, nsym, query, lastcmd, lines, echoed>>
    /\ UNCHANGED hexVars

\* the symbol loop reaches a section it skips: `continue`
LoadSkip ==
    /\ cmd = "elfquery"
    /\ pc = "load_symbols"
    /\ nsec < Len(elffile)
    /\ ~LoadsSymbols(elffile[nsec + 1])
    /\ nsec' = nsec + 1
    /\ UNCHANGED <<cmd, pc, err, elffile, sections, symbols, nsym, query,
                   lastcmd, lines, echoed>>
    /\ UNCHANGED hexVars

\* one iteration of the loop over a table's symbols: INSERT INTO symbols
LoadSymbol ==
    /\ cmd = "elfquery"
    /\ pc = "load_symbols"
    /\ nsec < Len(elffile)
    /\ LoadsSymbols(elffile[nsec + 1])
    /\ nsym < Len(elffile[nsec + 1].symbols)
    /\ symbols' = Append(symbols,
                         SymbolRow(elffile[nsec + 1].symbols[nsym + 1],
                                   sections, symbols))
    /\ nsym' = nsym + 1
    /\ UNCHANGED <<cmd, pc, err, elffile, sections, nsec, query, lastcmd,
                   lines, echoed>>
    /\ UNCHANGED hexVars

\* the loop over a table's symbols ends
LoadTableDone ==
    /\ cmd = "elfquery"
    /\ pc = "load_symbols"
    /\ nsec < Len(elffile)
    /\ LoadsSymbols(elffile[nsec + 1])
    /\ nsym = Len(elffile[nsec + 1].symbols)
    /\ nsec' = nsec + 1
    /\ nsym' = 0
    /\ UNCHANGED <<cmd, pc, err, elffile, sections, symbols, query, lastcmd,
                   lines, echoed>>
    /\ UNCHANGED hexVars

\* the loop over the sections ends: ELFQuery(input_file) returns
LoadDone ==
    /\ cmd = "elfquery"
    /\ pc = "load_symbols"
    /\ nsec = Len(elffile)
    /\ pc' = "loaded"
    /\ UNCHANGED <<cmd, err, elffile, sections, symbols, nsec, nsym, query,
                   lastcmd, lines, echoed>>
    /\ UNCHANGED hexVars

NextLoad ==
    \/ LoadSection
    \/ LoadSkip
    \/ LoadSymbol
    \/ LoadTableDone
    \/ LoadDone

InitLoad == InitLoadWith(ElfFiles(MaxSections), {"None"})

\* the construction of ELFQuery: the tables are created and loaded
SpecLoad == InitLoad /\ [][NextLoad]_vars

---------------------------------------------------------------------------
\* elfquery: ELFQuery.query, the one-shot query and the interactive loop.
\* A query string stands for what SQLite does with it.

\* an interactive session reads at most MaxLines lines
MaxLines == 3
\* the files of the query runs have at most QuerySections sections after
\* the null section
QuerySections == 1

SelectQuery == "SELECT Name FROM symbols"
MalformedQuery == "SELEC Name FROM symbols"
TwoStatements == "SELECT 1; SELECT 2"
DeleteQuery == "DELETE FROM symbols"

Queries == {SelectQuery, MalformedQuery, TwoStatements, DeleteQuery}
Lines == Queries \cup {"quit", "exit", "columns", "examples", "help", "", "EOF"}

\* self.db.execute(query): the symbols table after the statement ran
ExecuteSymbols(q, rows) == IF q = DeleteQuery THEN <<>> ELSE rows

\* the exception ELFQuery.query(q) raises, "none" when it returns:
\* execute raises sqlite3.OperationalError (an sqlite3.Error) on a syntax
\* error and sqlite3.Warning (not an sqlite3.Error) on a second statement;
\* after a statement that returns no rows cursor.description is None and
\* map(..., None) raises TypeError
QueryRaises(q) ==
    IF q = SelectQuery THEN "none"
    ELSE IF q = TwoStatements THEN "sqlite3.Warning"
    ELSE IF q = DeleteQuery THEN "TypeError"
    ELSE "sqlite3.Error"

\* the command line gave --query: run it, print the result, end
QueryOneShot ==
    /\ cmd = "elfquery"
    /\ pc = "loaded"
    /\ query # "None"
    /\ symbols' = ExecuteSymbols(query, symbols)
    /\ IF QueryRaises(query) = "none"
       THEN pc' = "done" /\ err' = err /\ echoed' = "results"
       ELSE pc' = "failed" /\ err' = QueryRaises(query) /\ echoed' = echoed
    /\ UNCHANGED <<cmd, elffile, sections, nsec, nsym, query, lastcmd, lines>>
    /\ UNCHANGED hexVars

\* no --query: the banner is echoed and cmdloop() starts
EnterLoop ==
    /\ cmd = "elfquery"
    /\ pc = "loaded"
    /\ query = "None"
    /\ pc' = "prompt"
    /\ echoed' = "banner"
    /\ UNCHANGED <<cmd, err, elffile, sections, symbols, nsec, nsym, query,
                   lastcmd, lines>>
    /\ UNCHANGED hexVars

\* InteractiveELFQuery.default(q).  An sqlite3.Error is caught and echoed
\* with ex.message, an attribute the exception has under Python 2 only:
\* under Python 3 the handler raises AttributeError.  Any other exception
\* leaves cmdloop().
Default(q) ==
    /\ symbols' = ExecuteSymbols(q, symbols)
    /\ IF QueryRaises(q) = "none"
       THEN pc' = pc /\ err' = err /\ echoed' = "results"
       ELSE IF QueryRaises(q) = "sqlite3.Error"
       THEN \/ pc' = pc /\ err' = err /\ echoed' = "ERROR"
            \/ pc' = "crashed" /\ err' = "AttributeError" /\ echoed' = echoed
       ELSE pc' = "crashed" /\ err' = QueryRaises(q) /\ echoed' = echoed

\* cmd.Cmd.onecmd(line) for a line that is not empty
OneCmd(line) ==
    IF line \in {"quit", "exit"}
    THEN pc' = "exited" /\ UNCHANGED <<err, echoed, symbols>>
    ELSE IF line \in {"columns", "examples", "help"}
    THEN echoed' = line /\ UNCHANGED <<pc, err, symbols>>
    ELSE Default(line)

\* one iteration of cmdloop(): a line is read and dispatched; an empty line
\* repeats lastcmd, "EOF" (end of input) has no do_EOF and goes to default
ReadLine ==
    /\ cmd = "elfquery"
    /\ pc = "prompt"
    /\ lines < MaxLines
    /\ lines' = lines + 1
    /\ \E line \in Lines :
          IF line = ""
          THEN /\ lastcmd' = lastcmd
               /\ IF lastcmd = ""
                  THEN UNCHANGED <<pc, err, echoed, symbols>>
                  ELSE OneCmd(lastcmd)
          ELSE /\ lastcmd' = IF line = "EOF" THEN "" ELSE line
               /\ OneCmd(line)
    /\ UNCHANGED <<cmd, elffile, sections, nsec, nsym, query>>
    /\ UNCHANGED hexVars

NextQuery ==
    \/ LoadSection
    \/ LoadSkip
    \/ LoadSymbol
    \/ LoadTableDone
    \/ LoadDone
    \/ QueryOneShot
    \/ EnterLoop
    \/ ReadLine

InitQuery == InitLoadWith(ElfFiles(QuerySections), Queries \cup {"None"})

\* one run of the elfquery command
SpecQuery == InitQuery /\ [][NextQuery]_vars

---------------------------------------------------------------------------
NextMerge ==
    \/ MergeInput
    \/ MergeWrite

NextPad ==
    \/ PadDefaults
    \/ PadValidate
    \/ PadRelative
    \/ PadFill
    \/ PadOverlay
    \/ PadWrite

\* one invocation of hexmerge
SpecMerge == InitMerge /\ [][NextMerge]_vars

\* one invocation of hexpad
SpecPad == InitPad /\ [][NextPad]_vars

Init == InitMerge \/ InitPad \/ InitLoad \/ InitQuery

Next == NextMerge \/ NextPad \/ NextQuery

Spec == Init /\ [][Next]_vars

---------------------------------------------------------------------------
\* Vocabulary of the claims.

Finished == pc \in {"done", "failed"}

\* some address is defined by two inputs of the list
SharedAddress(seq) ==
    \E j, k \in 1..Len(seq) : j < k /\ Used(seq[j]) \cap Used(seq[k]) # {}

\* some address is defined by two inputs of the list with different values
ConflictingValues(seq) ==
    \E j, k \in 1..Len(seq) :
        /\ j < k
        /\ \E a \in Used(seq[j]) \cap Used(seq[k]) : seq[j].buf[a] # seq[k].buf[a]

\* two inputs of the list carry different start addresses
StartConflict(seq) ==
    \E j, k \in 1..Len(seq) :
        /\ j < k
        /\ seq[j].start_addr # "None"
        /\ seq[k].start_addr # "None"
        /\ seq[j].start_addr # seq[k].start_addr

NoStartAddr(seq) == \A k \in 1..Len(seq) : seq[k].start_addr = "None"

AllUsed(seq) == UNION {Used(seq[k]) : k \in 1..Len(seq)}

Definers(seq, a) == {k \in 1..Len(seq) : a \in Used(seq[k])}

Perms(n) == {p \in [1..n -> 1..n] : \A j, k \in 1..n : p[j] = p[k] => j = k}
Permuted(seq, p) == [k \in 1..Len(seq) |-> seq[p[k]]]

---------------------------------------------------------------------------
\* C1 as stated: under the error policy hexmerge fails with the overlap
\* error when two inputs define an address with different values, and
\* succeeds when every address defined by more than one input carries the
\* same value in all of them.  (Stated on inputs without start address
\* records, where data is the only thing that can overlap.)
C1_FailsOnlyOnDifferentValues ==
    (cmd = "hexmerge" /\ overlap = "error" /\ Finished /\ NoStartAddr(inputs)) =>
        IF ConflictingValues(inputs)
        THEN err = "overlap" /\ ~written
        ELSE err = "none" /\ written

\* C1 amended: under the error policy hexmerge fails with the overlap error
\* when two inputs define the same address, whether their values differ or
\* are equal, or when two inputs carry different start addresses; otherwise
\* it succeeds.
C1_ErrorPolicy ==
    (cmd = "hexmerge" /\ overlap = "error" /\ Finished) =>
        IF SharedAddress(inputs) \/ StartConflict(inputs)
        THEN err = "overlap" /\ ~written
        ELSE err = "none" /\ written

\* C1 witness: a run that failed on an address two inputs define with the
\* same value
C1_Witness ==
    /\ cmd = "hexmerge" /\ overlap = "error" /\ pc = "failed"
    /\ SharedAddress(inputs)
    /\ ~ConflictingValues(inputs)
    /\ ~StartConflict(inputs)

\* C2 as stated: under the ignore policy no error is raised and every address
\* defined by more than one input holds, in the merged image, the value of
\* the latest-listed input that defines it.
C2_LastWriterWins ==
    (cmd = "hexmerge" /\ overlap = "ignore" /\ Finished) =>
        /\ err = "none"
        /\ written
        /\ \A a \in AllUsed(inputs) :
              /\ a \in Used(output)
              /\ output.buf[a] = inputs[MaxOf(Definers(inputs, a))].buf[a]

\* C3: hexmerge writes output only after every input has been merged
\* without error; a run that hit the overlap error, at whichever input,
\* has written nothing.
C3_AllOrNothing ==
    cmd = "hexmerge" =>
        /\ written =>
              /\ err = "none"
              /\ idx = Len(inputs) + 1
              /\ overlap = "error" =>
                    ~SharedAddress(inputs) /\ ~StartConflict(inputs)
        /\ err # "none" => ~written /\ output = EmptyImage

\* C3 witness: the overlap error hit at the second of three inputs, after
\* the first was merged, and nothing was written
C3_Witness ==
    /\ cmd = "hexmerge" /\ pc = "failed" /\ err = "overlap"
    /\ Len(inputs) = 3 /\ idx = 2
    /\ Used(merged) # {}
    /\ ~written

\* C4: whenever hexmerge succeeds, under either policy, the used addresses
\* of the merged image are exactly the union of the used addresses of the
\* inputs.
C4_UnionOfInputs ==
    (cmd = "hexmerge" /\ written) => Used(output) = AllUsed(inputs)

\* C4 witness: a successful merge under the ignore policy of three inputs
\* that share an address and each bring an address of their own
C4_Witness ==
    /\ cmd = "hexmerge" /\ written /\ overlap = "ignore"
    /\ Len(inputs) = 3
    /\ SharedAddress(inputs)
    /\ Used(inputs[2]) \ Used(inputs[1]) # {}
    /\ Used(inputs[3]) \ (Used(inputs[1]) \cup Used(inputs[2])) # {}

\* C5 as stated: for inputs with pairwise disjoint used addresses every
\* permutation of the input list succeeds and yields the same
\* address-to-value mapping.  (Stated on inputs that all hold data.)
C5_EveryOrderSucceeds ==
    ( /\ cmd = "hexmerge" /\ Finished /\ ~SharedAddress(inputs)
      /\ \A k \in 1..Len(inputs) : Used(inputs[k]) # {} ) =>
        /\ written
        /\ \A p \in Perms(Len(inputs)) :
              LET r == MergeAll(EmptyImage, Permuted(inputs, p), overlap)
              IN  ~r.raised /\ r.img.buf = output.buf

\* C5 amended: for inputs with pairwise disjoint used addresses the outcome
\* does not depend on the order: under the error policy with two inputs
\* carrying different start addresses every permutation fails with the
\* overlap error, and in every other case every permutation succeeds and
\* yields the same address-to-value mapping.
C5_OrderIndependent ==
    (cmd = "hexmerge" /\ Finished /\ ~SharedAddress(inputs)) =>
        \A p \in Perms(Len(inputs)) :
            LET r == MergeAll(EmptyImage, Permuted(inputs, p), overlap)
            IN  IF overlap = "error" /\ StartConflict(inputs)
                THEN r.raised /\ err = "overlap" /\ ~written
                ELSE ~r.raised /\ written /\ r.img.buf = output.buf

\* C5 witness: three non-empty inputs with pairwise disjoint addresses
\* merged successfully under the error policy
C5_Witness ==
    /\ cmd = "hexmerge" /\ pc = "done" /\ overlap = "error"
    /\ Len(inputs) = 3
    /\ \A k \in 1..3 : Used(inputs[k]) # {}
    /\ ~SharedAddress(inputs)

---------------------------------------------------------------------------
\* Vocabulary of the hexpad claims, in terms of the command's arguments.

NonEmpty == Used(input_hex) # {}
ImageMin == MinOf(Used(input_hex))
ImageMax == MaxOf(Used(input_hex))

\* an offset of relative mode, an unspecified one counting as 0
Off(o) == IF o = None THEN 0 ELSE Val(o)

\* the bounds of absolute mode after the defaults
AbsLo == IF args.start = None THEN ImageMin ELSE Val(args.start)
AbsHi == IF args.end = None THEN ImageMax ELSE Val(args.end)

\* the bounds of relative mode
RelLo == ImageMin + Off(args.start)
RelHi == ImageMax + Off(args.end)

RangeLo == IF args.relative THEN RelLo ELSE AbsLo
RangeHi == IF args.relative THEN RelHi ELSE AbsHi

\* the low eight bits of a pad value
Masked(pad) == CHOOSE b \in 0..255 : \E k \in (-1)..1 : pad = b + 256 * k

\* C6: hexpad result mapping, for a resolved range [start, end] with
\* start <= end: every address the input uses keeps its value, inside the
\* range or outside it, every address of the range the input does not use
\* holds pad & 0xFF, and no other address is defined.
C6_PadMapping ==
    (cmd = "hexpad" /\ written /\ RangeLo <= RangeHi) =>
        /\ Used(output) = Used(input_hex) \cup (RangeLo..RangeHi)
        /\ \A a \in Used(input_hex) : output.buf[a] = input_hex.buf[a]
        /\ \A a \in (RangeLo..RangeHi) \ Used(input_hex) :
              output.buf[a] = Masked(args.pad)

\* C6 witness: output written for an input with data below the range and
\* data inside it, the range also holding an unused address, padded with a
\* value that exceeds a byte
C6_Witness ==
    /\ cmd = "hexpad" /\ written /\ args.pad = 257
    /\ \E a \in Used(input_hex) : a < RangeLo
    /\ \E a \in Used(input_hex) : RangeLo <= a /\ a <= RangeHi
    /\ \E a \in RangeLo..RangeHi : a \notin Used(input_hex)

\* C7: in absolute mode, with the bounds as they are after the defaults: a
\* negative start or end fails with the negativity error, otherwise
\* end < start fails with the ordering error; in both cases no byte has been
\* padded and nothing is written.
C7_AbsoluteValidation ==
    ( /\ cmd = "hexpad" /\ ~args.relative
      /\ pc \notin {"defaults", "validate"}
      /\ (args.start = None \/ args.end = None) => NonEmpty ) =>
        IF AbsLo < 0 \/ AbsHi < 0
        THEN err = "negative" /\ pc = "failed" /\ padded = EmptyImage /\ ~written
        ELSE IF AbsHi < AbsLo
        THEN err = "order" /\ pc = "failed" /\ padded = EmptyImage /\ ~written
        ELSE err = "none"

\* C7 witness: the ordering error raised for a given start above the
\* defaulted end
C7_Witness ==
    /\ cmd = "hexpad" /\ ~args.relative
    /\ args.start # None /\ args.end = None /\ NonEmpty
    /\ Val(args.start) > ImageMax
    /\ err = "order" /\ pc = "failed"

C9_RelativeOrderingError ==
    ( /\ cmd = "hexpad" /\ args.relative /\ NonEmpty /\ Finished
      /\ RelLo > RelHi ) =>
        err = "order" /\ ~written

\* C9 amended: in relative mode, resolved bounds with start > end raise no
\* error: no byte is padded and the output written is the input image.
C9_RelativeEmptyRange ==
    ( /\ cmd = "hexpad" /\ args.relative /\ NonEmpty /\ Finished
      /\ RelLo > RelHi ) =>
        err = "none" /\ written /\ output = input_hex

\* C9 witness: a finished relative-mode run whose resolved start lies above
\* its resolved end
C9_Witness ==
    /\ cmd = "hexpad" /\ args.relative /\ NonEmpty /\ pc = "done"
    /\ RelLo > RelHi

\* C10: in absolute mode with neither start nor end given the range is
\* [image.min, image.max]; for an input whose used addresses are contiguous
\* the result is identical to the input.
C10_AbsoluteDefaults ==
    ( /\ cmd = "hexpad" /\ ~args.relative /\ NonEmpty
      /\ args.start = None /\ args.end = None ) =>
        /\ err = "none"
        /\ pc # "defaults" => (start = Some(ImageMin) /\ end = Some(ImageMax))
        /\ (pc = "fill" /\ i > ImageMax) => Used(padded) = ImageMin..ImageMax
        /\ written =>
              /\ Used(output) = ImageMin..ImageMax
              /\ Used(input_hex) = ImageMin..ImageMax => output = input_hex

\* C10 witness: output written with the default bounds for an input with
\* several contiguous addresses that do not start at 0
C10_Witness ==
    /\ cmd = "hexpad" /\ ~args.relative /\ written
    /\ args.start = None /\ args.end = None
    /\ Used(input_hex) = 1..2

---------------------------------------------------------------------------
\* elfquery claims: vocabulary

Loaded == cmd = "elfquery" /\ pc \in {"loaded"}

\* a symbol-table section whose entry size is not zero
NonzeroTable(section) ==
    section.sh_type \in {"SHT_SYMTAB", "SHT_DYNSYM"} /\ section.sh_entsize > 0

RECURSIVE EntriesFrom(_, _)
\* the entries of the tables at positions n.. of the file, in file order,
\* each with the index of its section and its 0-based position in the table
EntriesFrom(file, n) ==
    IF n > Len(file) THEN <<>>
    ELSE (IF NonzeroTable(file[n])
          THEN [j \in 1..Len(file[n].symbols) |->
                   [sec |-> n - 1, ord |-> j - 1, symbol |-> file[n].symbols[j]]]
          ELSE <<>>) \o EntriesFrom(file, n + 1)

Entries == EntriesFrom(elffile, 1)

Special == {<<"U", "N", "D">>, <<"A", "B", "S">>, <<"C", "O", "M">>}

\* C13: every entry of every symbol-table section with nonzero entry size
\* yields exactly one row of symbols, in file order; the other sections
\* yield none.  While loading, the rows are those of the first entries; once
\* loaded there are as many rows as entries.
C13_SymbolProjection ==
    cmd = "elfquery" =>
        /\ Len(symbols) <= Len(Entries)
        /\ \A k \in 1..Len(symbols) :
              /\ symbols[k].Name = Strip(Entries[k].symbol.name)
              /\ symbols[k].SectionIndex
                    = Strip(describe_symbol_shndx(Entries[k].symbol.st_shndx))
        /\ Loaded => Len(symbols) = Len(Entries)

\* a table of zero entry size holding entries was skipped and a table of two
\* entries was loaded
C13_Witness ==
    /\ Loaded
    /\ \E n \in 1..Len(elffile) :
          /\ IsSymbolTable(elffile[n])
          /\ elffile[n].sh_entsize = 0
          /\ elffile[n].symbols # <<>>
    /\ \E n \in 1..Len(elffile) :
          NonzeroTable(elffile[n]) /\ Len(elffile[n].symbols) = 2
    /\ Len(symbols) = 2

\* C14 as stated: each symbol row records the name of its owning table and
\* an ordinal equal to the entry's 0-based position in that table, and the
\* pair identifies the row.
C14_OwnerAndOrdinal ==
    Loaded =>
        /\ \A k \in 1..Len(symbols) :
              /\ symbols[k].Number = Entries[k].ord
              /\ symbols[k].Section
                    = Some(Strip(elffile[Entries[k].sec + 1].name))
        /\ \A k, l \in 1..Len(symbols) :
              (/\ symbols[k].Number = symbols[l].Number
               /\ symbols[k].Section = symbols[l].Section) => k = l

\* C14: the Number of a symbol row is its 1-based position among all the
\* symbol rows of the file, counted across the tables without restarting,
\* so the Number alone identifies the row.
C14_GlobalNumber ==
    cmd = "elfquery" =>
        /\ \A k \in 1..Len(symbols) : symbols[k].Number = k
        /\ \A k, l \in 1..Len(symbols) :
              symbols[k].Number = symbols[l].Number => k = l

\* two tables were loaded: the first row of the second table is row 2 or 3
C14_Witness ==
    /\ Loaded
    /\ Len(elffile) = 3
    /\ NonzeroTable(elffile[2]) /\ elffile[2].symbols # <<>>
    /\ NonzeroTable(elffile[3]) /\ elffile[3].symbols # <<>>
    /\ Len(symbols) >= 2
    /\ Entries[Len(symbols)].ord = 0

\* C15: a symbol row whose SectionIndex is a numeric index k has for Section
\* the Name of the sections row of Number k, the k-th section of the file
\* (null when the file has no section k); a row whose SectionIndex is a
\* special token has a null Section.
C15_CrossReference ==
    cmd = "elfquery" =>
        \A k \in 1..Len(symbols) :
            LET x == Entries[k].symbol.st_shndx
                row == symbols[k]
            IN  /\ (row.SectionIndex \notin Special /\ x < Len(elffile)) =>
                      /\ sections[x + 1].Number = x
                      /\ sections[x + 1].Name = Strip(elffile[x + 1].name)
                      /\ row.Section = Some(sections[x + 1].Name)
                /\ (row.SectionIndex \notin Special /\ x >= Len(elffile)) =>
                      row.Section = None
                /\ row.SectionIndex \in Special => row.Section = None

\* one row names section 2 and another has a special token
C15_Witness ==
    /\ Loaded
    /\ Len(sections) = 3
    /\ \E k \in 1..Len(symbols) :
          /\ symbols[k].SectionIndex = <<"2">>
          /\ symbols[k].Section = Some(sections[3].Name)
          /\ sections[3].Name # sections[2].Name
    /\ \E k \in 1..Len(symbols) :
          symbols[k].SectionIndex \in Special /\ symbols[k].Section = None

\* the suffix the statement of C16 gives a version of the name "v", index 2
VersionSuffix(version) ==
    CASE version = "def" -> <<"@", "@", "v">>
      [] version = "def_hidden" -> <<"@", "v">>
      [] version = "need" -> <<"@", "v", " ", "(", "2", ")">>
      [] OTHER -> <<>>

\* C16 as stated: the row of a versioned dynamic symbol carries the version
\* suffix: @@name for a definition, @name for a hidden one, @name (index)
\* for a needed one.
C16_VersionSuffix ==
    cmd = "elfquery" =>
        \A k \in 1..Len(symbols) :
            Entries[k].symbol.version # "none" =>
                symbols[k].Name = Strip(Entries[k].symbol.name)
                                     \o VersionSuffix(Entries[k].symbol.version)

\* C16: the row of a dynamic symbol carries no version suffix: its Name is
\* the symbol's name whatever version the file gives the symbol.
C16_NoVersionSuffix ==
    cmd = "elfquery" =>
        \A k \in 1..Len(symbols) :
            /\ symbols[k].Name = Strip(Entries[k].symbol.name)
            /\ \A c \in 1..Len(symbols[k].Name) : symbols[k].Name[c] # "@"

\* a dynamic symbol with a version definition and one with a needed version
\* were loaded
C16_Witness ==
    /\ Loaded
    /\ \E k \in 1..Len(symbols) :
          /\ elffile[Entries[k].sec + 1].sh_type = "SHT_DYNSYM"
          /\ Entries[k].symbol.version = "def"
    /\ \E k \in 1..Len(symbols) : Entries[k].symbol.version = "need"

\* the run is an interactive session
Interactive == cmd = "elfquery" /\ query = "None"

\* C11: in the interactive loop a query that fails is reported and the loop
\* continues: the session ends only through the exit/quit command, never
\* with an exception.
C11_LoopSurvivesErrors ==
    Interactive =>
        /\ pc # "crashed"
        /\ err = "none"
        /\ pc = "exited" => lastcmd \in {"quit", "exit"}

\* C12: in an interactive session the sections and symbols tables hold,
\* after the load, the loaded rows whatever queries were submitted.
C12_ReadOnlySnapshot ==
    (Interactive /\ pc \notin {"load_sections", "load_symbols"}) =>
        /\ Len(sections) = Len(elffile)
        /\ Len(symbols) = Len(Entries)
        /\ \A k \in 1..Len(symbols) :
              symbols[k].Name = Strip(Entries[k].symbol.name)

====
